---- MODULE Spec2Model ----
(***************************************************************************)
(* A model of the AnyToolCall proxy (src/index.js): the delimiter set, the *)
(* delimiter-aware parser, the request transcoder, the streaming response  *)
(* transcoder and the streaming read loop of handleRequest.                *)
(*                                                                         *)
(* Text is a sequence of code points, each written as a string.  The       *)
(* marker glyphs are written by their code point ("U0F12" is U+0F12).      *)
(* JavaScript indices are 0-based; the model's are 1-based, and 0 stands   *)
(* for the -1 of indexOf.                                                  *)
(***************************************************************************)
EXTENDS Integers, Sequences, FiniteSets, TLC

(***************************************************************************)
(* Bounds of the model.                                                    *)
(***************************************************************************)
\* how many content deltas the upstream sends in one response
MaxDeltas == 2
\* how many messages a request carries
MaxMsgs == 3
\* how many tool calls an assistant message carries
MaxCalls == 2
\* the values Date.now() takes are 0..MaxClock
MaxClock == 1
\* the chunks of a body are counted up to this number
MaxChunks == 3

(***************************************************************************)
(* The delimiter system.                                                   *)
(***************************************************************************)
DELIMITER_SETS ==
  << [open |-> "U0F12", close |-> "U0F12", mid |-> "U0FC7"],
     [open |-> "UA9C1", close |-> "UA9C2", mid |-> "U0FD4"],
     [open |-> "U1392", close |-> "U1392", mid |-> "U1393"],
     [open |-> "UA188", close |-> "UA188", mid |-> "UA2B0"],
     [open |-> "UAA5C", close |-> "UAA5C", mid |-> "UAA5F"],
     [open |-> "UA4F8", close |-> "UA4F8", mid |-> "UA4F9"] >>

SUFFIX_POOL ==
  << "U9F98", "U9750", "U9F49", "U9EA4", "U7228", "U9A6B", "U9C7B", "U7FB4",
     "U7287", "U9A89", "U98DD", "U53B5", "U9747", "U98CD", "U99AB", "U7065",
     "U53BD", "U53D2", "U53D5", "U8294" >>

\* generateMarkers with its three random draws made explicit
generateMarkers(set, suffix1, suffix2) ==
  [ TC_START     |-> << set.open, suffix1, "U1405" >>,
    TC_END       |-> << "U140A", suffix1, set.close >>,
    NAME_START   |-> << set.mid, "U25B8" >>,
    NAME_END     |-> << "U25C2", set.mid >>,
    ARGS_START   |-> << set.mid, "U25B9" >>,
    ARGS_END     |-> << "U25C3", set.mid >>,
    RESULT_START |-> << set.open, suffix2, "U27EB" >>,
    RESULT_END   |-> << "U27EA", suffix2, set.close >> ]

\* The draws of generateMarkers the model covers.  Rows 1 and 2 are the two
\* shapes of a row (close = open, close # open); the second suffix is the
\* first one or another one.  Every other draw is one of these four up to
\* the names of the glyphs.
Rows == {1, 2}
Suffixes2 == {1, 2}

\* the marker sets the constructor of ToolCallDelimiter can produce
MarkerSets ==
  { generateMarkers(DELIMITER_SETS[i], SUFFIX_POOL[1], SUFFIX_POOL[k]) :
      i \in Rows, k \in Suffixes2 }

(***************************************************************************)
(* Strings.                                                                *)
(***************************************************************************)
\* the code points of the model that JavaScript's \s and trim() treat as space
IsWS(c) == c \in {" ", "\n", "\t", "\r"}

\* whether p occurs in s at position i
At(s, i, p) ==
  /\ i >= 1
  /\ i + Len(p) - 1 <= Len(s)
  /\ \A k \in 1..Len(p) : s[i + k - 1] = p[k]

\* s.indexOf(p): the first position of p in s, 0 when there is none
IndexOf(s, p) ==
  LET hits == { i \in 1..Len(s) : At(s, i, p) }
  IN  IF hits = {} THEN 0 ELSE CHOOSE i \in hits : \A j \in hits : i <= j

\* s.includes(c) for one code point c
Includes(s, c) == \E i \in 1..Len(s) : s[i] = c

\* s.trim()
Trim(s) ==
  LET keep == { i \in 1..Len(s) : ~IsWS(s[i]) }
  IN  IF keep = {} THEN << >>
      ELSE LET lo == CHOOSE i \in keep : \A j \in keep : i <= j
               hi == CHOOSE i \in keep : \A j \in keep : j <= i
           IN  SubSeq(s, lo, hi)

\* the position after a greedy \s* that starts at i.  Every literal that
\* follows \s* in the pattern begins with a code point that is not a space,
\* so backtracking into \s* never yields a match.
SkipWS(s, i) ==
  LET stops == { j \in i..Len(s) : ~IsWS(s[j]) }
  IN  IF stops = {} THEN Len(s) + 1
      ELSE CHOOSE j \in stops : \A k \in stops : j <= k

Min(S) == CHOOSE x \in S : \A y \in S : x <= y

(***************************************************************************)
(* JSON.parse on an arguments blob, as far as it decides acceptance.  Over *)
(* the code points of the model a JSON text is, between optional JSON      *)
(* white space, a number (digits "1"), an object "{" "}" with only white   *)
(* space inside, or a string between two quotes whose inside holds any     *)
(* code point but a quote, a line break or a tab.                          *)
(***************************************************************************)
JSONParseOk(s) ==
  LET t == Trim(s)
      n == Len(t)
  IN  /\ n >= 1
      /\ \/ \A i \in 1..n : t[i] = "1"
         \/ /\ n >= 2 /\ t[1] = "{" /\ t[n] = "}"
            /\ \A i \in 2..(n - 1) : IsWS(t[i])
         \/ /\ n >= 2 /\ t[1] = "\"" /\ t[n] = "\""
            /\ \A i \in 2..(n - 1) : t[i] \notin {"\"", "\n", "\t", "\r"}

(***************************************************************************)
(* ToolCallDelimiter.parse.                                                *)
(***************************************************************************)
\* the positions k >= from where ARGS_END \s* TC_END matches
ArgsEnds(m, s, from) ==
  { k \in from..Len(s) :
      /\ At(s, k, m.ARGS_END)
      /\ At(s, SkipWS(s, k + Len(m.ARGS_END)), m.TC_END) }

\* the positions j >= from where NAME_END \s* ARGS_START ([\s\S]*?) ARGS_END
\* \s* TC_END matches
NameEnds(m, s, from) ==
  { j \in from..Len(s) :
      /\ At(s, j, m.NAME_END)
      /\ LET q == SkipWS(s, j + Len(m.NAME_END))
         IN  /\ At(s, q, m.ARGS_START)
             /\ ArgsEnds(m, s, q + Len(m.ARGS_START)) # {} }

\* whether the whole pattern matches at position i
MatchesAt(m, s, i) ==
  /\ At(s, i, m.TC_START)
  /\ LET p == SkipWS(s, i + Len(m.TC_START))
     IN  /\ At(s, p, m.NAME_START)
         /\ NameEnds(m, s, p + Len(m.NAME_START)) # {}

\* the match at position i: the lazy groups take the first NAME_END, then
\* the first ARGS_END, from which the rest of the pattern matches
MatchAt(m, s, i) ==
  LET p  == SkipWS(s, i + Len(m.TC_START))
      n0 == p + Len(m.NAME_START)
      j  == Min(NameEnds(m, s, n0))
      q  == SkipWS(s, j + Len(m.NAME_END))
      a0 == q + Len(m.ARGS_START)
      k  == Min(ArgsEnds(m, s, a0))
      e  == SkipWS(s, k + Len(m.ARGS_END))
  IN  [ index |-> i,
        next  |-> e + Len(m.TC_END),
        name  |-> SubSeq(s, n0, j - 1),
        args  |-> SubSeq(s, a0, k - 1) ]

\* regex.exec(content) with lastIndex = from - 1: the position of the
\* leftmost match that starts at from or later, 0 when there is none
Exec(m, s, from) ==
  LET hits == { i \in from..Len(s) : MatchesAt(m, s, i) }
  IN  IF hits = {} THEN 0 ELSE Min(hits)

\* a faulty variant of the while loop of parse: the counter that numbers the
\* ids is never advanced, so every id of one call of parse is the same
RECURSIVE ParseLoopSameId(_, _, _, _, _, _)
ParseLoopSameId(m, s, from, idx, now, toolCalls) ==
  LET i == Exec(m, s, from)
  IN  IF i = 0 THEN toolCalls
      ELSE LET mt      == MatchAt(m, s, i)
               name    == Trim(mt.name)
               argsStr == Trim(mt.args)
           IN  IF ~JSONParseOk(argsStr)
               THEN ParseLoopSameId(m, s, mt.next, idx, now, toolCalls)
               ELSE ParseLoopSameId(m, s, mt.next, idx, now,
                      Append(toolCalls,
                        [ id       |-> << "call_", now, idx >>,
                          type     |-> "function",
                          function |-> [name |-> name, arguments |-> argsStr] ]))

\* the while loop of parse: from is lastIndex + 1, idx the id counter
RECURSIVE ParseLoop(_, _, _, _, _, _)
ParseLoop(m, s, from, idx, now, toolCalls) ==
  LET i == Exec(m, s, from)
  IN  IF i = 0 THEN toolCalls
      ELSE LET mt      == MatchAt(m, s, i)
               name    == Trim(mt.name)
               argsStr == Trim(mt.args)
           IN  IF ~JSONParseOk(argsStr)
               THEN ParseLoop(m, s, mt.next, idx, now, toolCalls)
               ELSE ParseLoop(m, s, mt.next, idx + 1, now,
                      Append(toolCalls,
                        [ id       |-> << "call_", now, idx >>,
                          type     |-> "function",
                          function |-> [name |-> name, arguments |-> argsStr] ]))

\* content.replace(regex, ''): every match removed, valid JSON or not
RECURSIVE ReplaceAll(_, _, _)
ReplaceAll(m, s, from) ==
  LET i == Exec(m, s, from)
  IN  IF i = 0 THEN SubSeq(s, from, Len(s))
      ELSE SubSeq(s, from, i - 1) \o ReplaceAll(m, s, MatchAt(m, s, i).next)

\* parse(content): now is the value of Date.now() during the call
parse(m, content, now) ==
  [ toolCalls    |-> ParseLoop(m, content, 1, 0, now, << >>),
    cleanContent |-> Trim(ReplaceAll(m, content, 1)) ]

(***************************************************************************)
(* JavaScript values.  An object is a function from the names of the       *)
(* fields it has to their values; a field it lacks reads as undefined.     *)
(* A run of literal text that no operation of the program splits, such as  *)
(* "[Called tools: ", is one element of a text.  null is written Null, a   *)
(* one-element sequence that is no text of the model.                      *)
(***************************************************************************)
Null == << "#null" >>

Has(obj, f) == f \in DOMAIN obj

\* v || '' for a field that holds a text or null, or is missing
OrEmpty(obj, f) == IF Has(obj, f) /\ obj[f] # Null THEN obj[f] ELSE << >>

\* the text that string concatenation and template literals make of a field
ToText(obj, f) ==
  IF ~Has(obj, f) THEN << "undefined" >>
  ELSE IF obj[f] = Null THEN << "null" >>
  ELSE obj[f]

\* msg.role, "#undefined" when the message has none
RoleOf(msg) == IF Has(msg, "role") THEN msg.role ELSE "#undefined"

\* msg.tool_calls?.length
HasToolCalls(msg) == Has(msg, "tool_calls") /\ Len(msg.tool_calls) > 0

\* parts.join(sep)
RECURSIVE Join(_, _)
Join(parts, sep) ==
  IF Len(parts) = 0 THEN << >>
  ELSE IF Len(parts) = 1 THEN parts[1]
  ELSE parts[1] \o sep \o Join(Tail(parts), sep)

RECURSIVE Concat(_)
Concat(parts) ==
  IF Len(parts) = 0 THEN << >> ELSE parts[1] \o Concat(Tail(parts))

(***************************************************************************)
(* getSystemPrompt: the literal prose is kept as single elements, the      *)
(* tool list and the two example envelopes are spelled out.  A tool is     *)
(* modelled by its function name.                                          *)
(***************************************************************************)
ExampleBlock(m, name, args) ==
  m.TC_START \o << "\n" >> \o
  m.NAME_START \o name \o m.NAME_END \o << "\n" >> \o
  m.ARGS_START \o args \o m.ARGS_END \o << "\n" >> \o
  m.TC_END

getSystemPrompt(m, tools) ==
  << "\n", "## Tool Calling (AnyToolCall Protocol)", "\n" >> \o
  Join([i \in 1..Len(tools) |-> << "- **" >> \o tools[i] \o << "**" >>], << "\n" >>) \o
  << "\n", "### How to call tools", "\n" >> \o
  ExampleBlock(m, << "function_name" >>, << "{", "\"", "param", "\"", "}" >>) \o
  << "\n", "### Example", "\n" >> \o
  ExampleBlock(m, << "web_search" >>, << "{", "\"", "query", "\"", "}" >>) \o
  << "\n", "### Rules", "\n", "### Tool Results", "\n" >> \o
  m.RESULT_START \o << "..." >> \o m.RESULT_END \o << "\n" >>

(***************************************************************************)
(* mergeAdjacentMessages.                                                  *)
(***************************************************************************)
\* current.content = (current.content || '') + '\n\n' + (msg.content || '')
MergeInto(current, msg) ==
  [ f \in DOMAIN current \cup {"content"} |->
      IF f = "content"
      THEN OrEmpty(current, "content") \o << "\n", "\n" >> \o OrEmpty(msg, "content")
      ELSE current[f] ]

\* the for loop of mergeAdjacentMessages, from message i on
RECURSIVE MergeLoop(_, _, _, _)
MergeLoop(messages, i, current, merged) ==
  IF i > Len(messages) THEN Append(merged, current)
  ELSE IF RoleOf(messages[i]) = RoleOf(current)
       THEN MergeLoop(messages, i + 1, MergeInto(current, messages[i]), merged)
       ELSE MergeLoop(messages, i + 1, messages[i], Append(merged, current))

\* a faulty variant of mergeAdjacentMessages: after a merge the loop starts
\* afresh from the next message, so a run of same-role messages is merged
\* two by two only
RECURSIVE MergePairsLoop(_, _, _, _)
MergePairsLoop(messages, i, current, merged) ==
  IF i > Len(messages) THEN Append(merged, current)
  ELSE IF RoleOf(messages[i]) = RoleOf(current)
       THEN IF i + 1 > Len(messages)
            THEN Append(merged, MergeInto(current, messages[i]))
            ELSE MergePairsLoop(messages, i + 2, messages[i + 1],
                                Append(merged, MergeInto(current, messages[i])))
       ELSE MergePairsLoop(messages, i + 1, messages[i], Append(merged, current))

mergeAdjacentPairs(messages) ==
  IF Len(messages) = 0 THEN messages
  ELSE MergePairsLoop(messages, 2, messages[1], << >>)

mergeAdjacentMessages(messages) ==
  IF Len(messages) = 0 THEN messages
  ELSE MergeLoop(messages, 2, messages[1], << >>)

(***************************************************************************)
(* transformRequest.                                                       *)
(***************************************************************************)
\* the delimited block appended for one tool call of an assistant message
EncodeCall(m, tc) ==
  << "\n" >> \o m.TC_START \o << "\n" >> \o
  m.NAME_START \o tc.function.name \o m.NAME_END \o << "\n" >> \o
  m.ARGS_START \o tc.function.arguments \o m.ARGS_END \o << "\n" >> \o
  m.TC_END

\* a faulty variant of the branch for a system message: the separator and
\* the tool system prompt are appended even when the prompt is empty
RewriteSystemAlwaysAppends(msg, toolSystemPrompt) ==
  [ role    |-> "system",
    content |-> ToText(msg, "content") \o << "\n", "\n" >> \o toolSystemPrompt ]

\* the branch for a system message
RewriteSystem(msg, toolSystemPrompt) ==
  [ role    |-> "system",
    content |-> ToText(msg, "content") \o
                (IF toolSystemPrompt # << >>
                 THEN << "\n", "\n" >> \o toolSystemPrompt ELSE << >>) ]

\* a faulty variant of the branch for an assistant message that carries
\* tool calls: the calls are written between markers whatever hasTools is
RewriteAssistantCallsAlwaysEncodes(m, msg, hasTools) ==
  [ role    |-> "assistant",
    content |->
      OrEmpty(msg, "content") \o
      Concat([i \in 1..Len(msg.tool_calls) |-> EncodeCall(m, msg.tool_calls[i])]) ]

\* the branch for an assistant message that carries tool calls
RewriteAssistantCalls(m, msg, hasTools) ==
  [ role    |-> "assistant",
    content |->
      OrEmpty(msg, "content") \o
      (IF hasTools
       THEN Concat([i \in 1..Len(msg.tool_calls) |-> EncodeCall(m, msg.tool_calls[i])])
       ELSE << "\n", "\n", "[Called tools: " >> \o
            Join([i \in 1..Len(msg.tool_calls) |-> msg.tool_calls[i].function.name],
                 << ", " >>) \o
            << "]" >>) ]

\* the branch for a tool message
RewriteTool(m, msg, hasTools) ==
  LET name   == IF Has(msg, "name") /\ msg.name # << >> THEN msg.name
                ELSE IF Has(msg, "tool_call_id") /\ msg.tool_call_id # << >>
                     THEN msg.tool_call_id
                     ELSE << "unknown" >>
      result == ToText(msg, "content")
  IN  [ role    |-> "user",
        content |->
          IF hasTools
          THEN m.RESULT_START \o << "[" >> \o name \o << "]", "\n" >> \o result \o
               m.RESULT_END
          ELSE << "[Result from " >> \o name \o << "]:", "\n" >> \o result ]

\* the body of the loop over request.messages
RewriteMessage(m, msg, hasTools, toolSystemPrompt) ==
  IF RoleOf(msg) = "system" THEN RewriteSystem(msg, toolSystemPrompt)
  ELSE IF RoleOf(msg) = "assistant" /\ HasToolCalls(msg)
       THEN RewriteAssistantCalls(m, msg, hasTools)
  ELSE IF RoleOf(msg) = "tool" THEN RewriteTool(m, msg, hasTools)
  ELSE msg

\* a faulty variant of the construction of newRequest: tool_choice is not
\* deleted
NewRequestKeepsToolChoice(request, messages) ==
  [ f \in (DOMAIN request \cup {"messages"}) \ {"tools"} |->
      IF f = "messages" THEN messages ELSE request[f] ]

\* { ...request, messages } without the keys tools and tool_choice
NewRequest(request, messages) ==
  [ f \in (DOMAIN request \cup {"messages"}) \ {"tools", "tool_choice"} |->
      IF f = "messages" THEN messages ELSE request[f] ]

transformRequest(m, request, hasTools) ==
  LET tools            == IF Has(request, "tools") THEN request.tools ELSE << >>
      toolSystemPrompt == IF hasTools /\ Len(tools) > 0
                          THEN getSystemPrompt(m, tools) ELSE << >>
      rewritten        == [ i \in 1..Len(request.messages) |->
                              RewriteMessage(m, request.messages[i], hasTools,
                                             toolSystemPrompt) ]
      hasSystem        == \E i \in 1..Len(request.messages) :
                              RoleOf(request.messages[i]) = "system"
      messages         == IF ~hasSystem /\ toolSystemPrompt # << >>
                          THEN << [role |-> "system", content |-> toolSystemPrompt] >>
                               \o rewritten
                          ELSE rewritten
  IN  NewRequest(request, mergeAdjacentMessages(messages))

(***************************************************************************)
(* The streaming transformer.  A chunk of the upstream body is a sequence  *)
(* of wire elements: LF, the literal "data: ", the literal "[DONE]", the   *)
(* JSON text around a content delta (JOpen, JClose), the code points of    *)
(* the content in their JSON-escaped form, and other JSON or comment text. *)
(* The state of one transformer is the record                              *)
(*   [lineBuffer, contentBuffer, isBuffering, pendingText, streamEnded]    *)
(* together with out, the frames pushed so far.  The id and created fields *)
(* of a chunk, both time stamps, are left out of a frame.                  *)
(***************************************************************************)
LF == "\n"
DataPrefix == "data: "
DoneLiteral == "[DONE]"
JOpen == "{\"choices\":[{\"delta\":{\"content\":\""
JClose == "\"}}]}"
JRole == "{\"choices\":[{\"delta\":{\"role\":\"assistant\"}}]}"

\* JSON.stringify and JSON.parse of one code point inside a string
Escape(c) == IF c = "\n" THEN "\\n" ELSE IF c = "\"" THEN "\\\"" ELSE c
Unescape(c) == IF c = "\\n" THEN "\n" ELSE IF c = "\\\"" THEN "\"" ELSE c

\* the upstream line that carries content delta c
ContentLine(c) ==
  << DataPrefix, JOpen >> \o [i \in 1..Len(c) |-> Escape(c[i])] \o << JClose >>
DoneLine == << DataPrefix, DoneLiteral >>
RoleLine == << DataPrefix, JRole >>
CommentLine == << ": keep-alive" >>

\* JSON.parse(trimmed.slice(6)) followed by parsed.choices?.[0]?.delta?.content:
\* [ok, content]; ok is FALSE when JSON.parse throws or there is no content
DeltaContent(payload) ==
  LET n == Len(payload)
  IN  IF /\ n >= 2 /\ payload[1] = JOpen /\ payload[n] = JClose
         /\ \A i \in 2..(n - 1) :
              payload[i] \notin {JOpen, JClose, JRole, DataPrefix, DoneLiteral, "\"", LF}
      THEN [ok |-> TRUE, content |-> [i \in 1..(n - 2) |-> Unescape(payload[i + 1])]]
      ELSE [ok |-> FALSE, content |-> << >>]

\* textChunk: the frames to push for a text, none for the empty text
textChunk(text) ==
  IF text = << >> THEN << >>
  ELSE << [kind |-> "content", content |-> text] >>

\* a faulty variant of toolCallChunks: the index is counted from 1
toolCallChunksFromOne(toolCalls) ==
  [ i \in 1..Len(toolCalls) |->
      [kind |-> "tool_calls", index |-> i, call |-> toolCalls[i]] ]

\* toolCallChunks: one frame per tool call, index from 0
toolCallChunks(toolCalls) ==
  [ i \in 1..Len(toolCalls) |->
      [kind |-> "tool_calls", index |-> i - 1, call |-> toolCalls[i]] ]

finishChunk(reason) == << [kind |-> "finish", reason |-> reason] >>

DoneFrame == << [kind |-> "[DONE]"] >>

\* what the [DONE] branch and flush push for the result p of parse
EmitParsed(p) ==
  textChunk(p.cleanContent) \o
  (IF Len(p.toolCalls) > 0
   THEN toolCallChunks(p.toolCalls) \o finishChunk("tool_calls")
   ELSE finishChunk("stop"))

\* what the [DONE] branch and flush push for a non-empty contentBuffer
EmitBuffer(m, contentBuffer, now) == EmitParsed(parse(m, contentBuffer, now))

\* processLine, the branch for 'data: [DONE]'
DoneBranch(m, st, now) ==
  [ st EXCEPT
      !.streamEnded   = TRUE,
      !.pendingText   = << >>,
      !.contentBuffer = << >>,
      !.out = st.out \o textChunk(st.pendingText) \o
              (IF st.contentBuffer # << >>
               THEN EmitBuffer(m, st.contentBuffer, now)
               ELSE finishChunk("stop")) \o
              DoneFrame ]

\* a faulty variant of the handling of a content delta: what is held back is
\* the delta alone, so text held back earlier is lost
TextHandlingDropsPending(m, st, content) ==
  IF st.isBuffering
  THEN [st EXCEPT !.contentBuffer = st.contentBuffer \o content]
  ELSE LET combined == st.pendingText \o content
           startIdx == IndexOf(combined, m.TC_START)
       IN  IF startIdx # 0
           THEN [ st EXCEPT
                    !.out = st.out \o textChunk(SubSeq(combined, 1, startIdx - 1)),
                    !.contentBuffer = SubSeq(combined, startIdx, Len(combined)),
                    !.pendingText = << >>,
                    !.isBuffering = TRUE ]
           ELSE IF Includes(combined, m.TC_START[1])
                THEN [st EXCEPT !.pendingText = content]
                ELSE [ st EXCEPT
                         !.out = st.out \o textChunk(combined),
                         !.pendingText = << >> ]

\* processLine, the handling of a content delta
TextHandling(m, st, content) ==
  IF st.isBuffering
  THEN [st EXCEPT !.contentBuffer = st.contentBuffer \o content]
  ELSE LET combined == st.pendingText \o content
           startIdx == IndexOf(combined, m.TC_START)
       IN  IF startIdx # 0
           THEN [ st EXCEPT
                    !.out = st.out \o textChunk(SubSeq(combined, 1, startIdx - 1)),
                    !.contentBuffer = SubSeq(combined, startIdx, Len(combined)),
                    !.pendingText = << >>,
                    !.isBuffering = TRUE ]
           ELSE IF Includes(combined, m.TC_START[1])
                THEN [st EXCEPT !.pendingText = combined]
                ELSE [ st EXCEPT
                         !.out = st.out \o textChunk(combined),
                         !.pendingText = << >> ]

processLine(m, st, line, now) ==
  LET trimmed == Trim(line)
  IN  IF trimmed = << >> THEN st
      ELSE IF trimmed = DoneLine THEN DoneBranch(m, st, now)
      ELSE IF trimmed[1] # DataPrefix THEN st
      ELSE LET d == DeltaContent(Tail(trimmed))
           IN  IF ~d.ok THEN st ELSE TextHandling(m, st, d.content)

\* text.split('\n')
RECURSIVE SplitLines(_)
SplitLines(text) ==
  LET i == IndexOf(text, << LF >>)
  IN  IF i = 0 THEN << text >>
      ELSE << SubSeq(text, 1, i - 1) >> \o SplitLines(SubSeq(text, i + 1, Len(text)))

RECURSIVE ProcessLines(_, _, _, _)
ProcessLines(m, st, lines, now) ==
  IF Len(lines) = 0 THEN st
  ELSE ProcessLines(m, processLine(m, st, lines[1], now), Tail(lines), now)

\* a faulty variant of the transform method: the last fragment of a chunk
\* is processed as a line instead of being retained in lineBuffer
transformWithoutTail(m, st, chunk, now) ==
  ProcessLines(m, [st EXCEPT !.lineBuffer = << >>], SplitLines(chunk), now)

\* the transform method
transform(m, st, chunk, now) ==
  LET lines == SplitLines(st.lineBuffer \o chunk)
      n     == Len(lines)
  IN  ProcessLines(m, [st EXCEPT !.lineBuffer = lines[n]], SubSeq(lines, 1, n - 1), now)

\* flush after its first statement: st is the state once the line left in
\* lineBuffer, if any, has been processed
FlushBuffers(m, st, now) ==
  [ st EXCEPT
      !.lineBuffer  = << >>,
      !.pendingText = << >>,
      !.out = st.out \o textChunk(st.pendingText) \o
              (IF st.contentBuffer # << >>
               THEN EmitBuffer(m, st.contentBuffer, now)
               ELSE finishChunk("stop")) \o
              DoneFrame ]

\* the flush method
flush(m, st, now) ==
  IF st.streamEnded THEN st
  ELSE FlushBuffers(m,
         IF st.lineBuffer # << >> THEN processLine(m, st, st.lineBuffer, now) ELSE st,
         now)

(***************************************************************************)
(* The state: the marker set of the process; one streaming transformer     *)
(* (lines 323-328), what it has pushed (and res.write has been given) and  *)
(* the upstream and the client of its request; one request on its way      *)
(* through transformRequest; one request on its way through handleRequest; *)
(* and the transformer of a second streaming request served at the same    *)
(* time.                                                                   *)
(***************************************************************************)
VARIABLES
  markers,        \* delimiter.markers
  lineBuffer, contentBuffer, isBuffering, pendingText, streamEnded,
  out,            \* the frames pushed, in order
  rest,           \* the model output the upstream has not sent yet
  sent,           \* the concatenation of the content deltas sent
  phase,          \* "reading", "tail" (an unterminated line was read), "ended"
  up,             \* the upstream so far: [deltas, done, late]
  conn,           \* the client and the reader: [gone, goneAt, reads, failed, failedAt]
  request,        \* the body of the request
  stage,          \* "received", "rewritten", "again", "parsed"
  rewritten,      \* [hasTools, body]: the argument and result of transformRequest
  again,          \* the result of transformRequest on rewritten.body
  parsed,         \* [index, result]: parse of the content of a message of rewritten.body
  config,         \* the environment: [ALLOW_LOCAL_NET]
  hreq,           \* the request handleRequest was given: [url, body]
  pc,             \* where handleRequest is: "received", "validated", "fetched", "done"
  sentBody,       \* the bodies given to fetch, in order (none or one)
  resolved,       \* what dns.lookup answered, or that it was not called
  upRes,          \* the response fetch resolved to (or that it rejected)
  reply,          \* what the client was answered: [status, kind, branch, body]
  peer            \* the transformer of a second request: its five variables,
                  \* and its out, rest, sent and phase

streamVars == << lineBuffer, contentBuffer, isBuffering, pendingText,
                 streamEnded, out, rest, sent, phase, up, conn >>
requestVars == << request, stage, rewritten, again, parsed >>
proxyVars == << config, hreq, pc, resolved, sentBody, upRes, reply >>
vars == << markers, streamVars, requestVars, proxyVars, peer >>

Clock == 0..MaxClock

\* the transformer's variables as a record, and back
St == [ lineBuffer |-> lineBuffer, contentBuffer |-> contentBuffer,
        isBuffering |-> isBuffering, pendingText |-> pendingText,
        streamEnded |-> streamEnded, out |-> out ]

SetSt(st) ==
  /\ lineBuffer' = st.lineBuffer
  /\ contentBuffer' = st.contentBuffer
  /\ isBuffering' = st.isBuffering
  /\ pendingText' = st.pendingText
  /\ streamEnded' = st.streamEnded
  /\ out' = st.out

\* createStreamTransformer: the initial values of lines 324-328
NewTransformer ==
  /\ lineBuffer = << >>
  /\ contentBuffer = << >>
  /\ isBuffering = FALSE
  /\ pendingText = << >>
  /\ streamEnded = FALSE
  /\ out = << >>

(***************************************************************************)
(* The model outputs the upstream streams.  The stream may end after any   *)
(* prefix of one, so every prefix is covered too.                          *)
(***************************************************************************)
Call(name, args) ==
  [ id |-> << "call_x" >>, type |-> "function",
    function |-> [name |-> name, arguments |-> args] ]

\* an envelope as the system prompt shows it, without the optional spaces
Block(m, name, args) ==
  m.TC_START \o m.NAME_START \o name \o m.NAME_END \o
  m.ARGS_START \o args \o m.ARGS_END \o m.TC_END

Outputs(m) ==
  { \* text that holds the first code points of TC_START, never all of it
    << "a", m.TC_START[1], "b", m.TC_START[1], m.TC_START[2], "c" >>,
    \* PREFIX + encode(toolCall)
    << "a" >> \o EncodeCall(m, Call(<< "f" >>, << "1" >>)),
    << m.TC_START[1] >> \o EncodeCall(m, Call(<< "f" >>, << "1" >>)),
    \* text after an envelope
    Block(m, << "f" >>, << "1" >>) \o << "\n", "b" >>,
    \* an envelope whose arguments are not JSON
    << "a" >> \o Block(m, << "f" >>, << "x" >>) \o << "b" >>,
    \* two envelopes, text between them
    Block(m, << "f" >>, << "1" >>) \o << "b" >> \o Block(m, << "g" >>, << "{", "}" >>),
    \* a rejected envelope before a well-formed one
    Block(m, << "f" >>, << "x" >>) \o Block(m, << "g" >>, << "1" >>) }

\* the outputs of the runs in which the reader or the client fails
LoopOutputs(m) ==
  { << "a", m.TC_START[1] >>,
    << "a" >> \o Block(m, << "f" >>, << "1" >>) }

\* the lines without content the upstream may send
OtherLines == { << >>, CommentLine, RoleLine }

(***************************************************************************)
(* The read loop of handleRequest, branch A (lines 539-548).  The handler  *)
(* of 'data' gives every pushed frame to res.write; once the client is     *)
(* gone the socket drops what it is given.                                 *)
(***************************************************************************)
\* transformer.write(chunk)
Write(chunk) == \E now \in Clock : SetSt(transform(markers, St, chunk, now))

\* one more reader.read() has resolved; those after the client left are
\* counted up to 2 ("two or more")
Resolved == [conn EXCEPT !.reads = IF conn.gone /\ @ < 2 THEN @ + 1 ELSE @]

\* reader.read() yields a line with the next k code points of the output as
\* its content delta; the line ends with LF unless it is the last of the body
ReadDelta ==
  /\ phase = "reading"
  /\ up.deltas < MaxDeltas
  /\ \E k \in 1..Len(rest), terminated \in BOOLEAN :
       /\ Write(ContentLine(SubSeq(rest, 1, k)) \o
                (IF terminated THEN << LF >> ELSE << >>))
       /\ rest' = SubSeq(rest, k + 1, Len(rest))
       /\ sent' = sent \o SubSeq(rest, 1, k)
       /\ phase' = IF terminated THEN "reading" ELSE "tail"
       /\ up' = [up EXCEPT !.deltas = @ + 1, !.late = @ \/ up.done]
  /\ conn' = Resolved
  /\ UNCHANGED << markers, requestVars, proxyVars, peer >>

\* reader.read() yields the line data: [DONE]
ReadDone ==
  /\ phase = "reading"
  /\ ~up.done
  /\ \E terminated \in BOOLEAN :
       /\ Write(DoneLine \o (IF terminated THEN << LF >> ELSE << >>))
       /\ phase' = IF terminated THEN "reading" ELSE "tail"
  /\ up' = [up EXCEPT !.done = TRUE]
  /\ conn' = Resolved
  /\ UNCHANGED << markers, rest, sent, requestVars, proxyVars, peer >>

\* reader.read() yields a line that carries no content
ReadOther ==
  /\ phase = "reading"
  /\ \E line \in OtherLines : Write(line \o << LF >>)
  /\ conn' = Resolved
  /\ UNCHANGED << markers, rest, sent, phase, up, requestVars, proxyVars, peer >>

\* reader.read() yields done: the loop breaks and transformer.end() runs flush
ReadEnd ==
  /\ phase \in {"reading", "tail"}
  /\ \E now \in Clock : SetSt(flush(markers, St, now))
  /\ phase' = "ended"
  /\ conn' = Resolved
  /\ UNCHANGED << markers, rest, sent, up, requestVars, proxyVars, peer >>

\* reader.read() rejects: the catch clause calls transformer.end(), which
\* runs flush
ReadError ==
  /\ phase \in {"reading", "tail"}
  /\ \E now \in Clock : SetSt(flush(markers, St, now))
  /\ phase' = "ended"
  /\ conn' = [ gone |-> conn.gone, goneAt |-> conn.goneAt, reads |-> conn.reads,
                failed |-> TRUE, failedAt |-> Len(out) ]
  /\ UNCHANGED << markers, rest, sent, up, requestVars, proxyVars, peer >>

\* the client closes the connection; no line of handleRequest observes it
ClientDisconnect ==
  /\ phase \in {"reading", "tail"}
  /\ ~conn.gone
  /\ conn' = [conn EXCEPT !.gone = TRUE, !.goneAt = Len(out)]
  /\ UNCHANGED << markers, lineBuffer, contentBuffer, isBuffering, pendingText,
                  streamEnded, out, rest, sent, phase, up, requestVars, proxyVars, peer >>

NewStream ==
  /\ NewTransformer
  /\ sent = << >>
  /\ phase = "reading"
  /\ up = [deltas |-> 0, done |-> FALSE, late |-> FALSE]
  /\ conn = [gone |-> FALSE, goneAt |-> 0, reads |-> 0, failed |-> FALSE, failedAt |-> 0]

(***************************************************************************)
(* The requests that transformRequest is applied to.                       *)
(***************************************************************************)
\* the messages of a conversation: system messages (one of them with null
\* content and a further field), a user message, a plain assistant message,
\* an assistant message with a tool call, two tool messages
MessagePool(m) ==
  { [role |-> "system", content |-> << "s" >>],
    [role |-> "system", content |-> Null, name |-> << "n" >>],
    [role |-> "user", content |-> << "a" >>, name |-> << "n" >>],
    [role |-> "assistant", content |-> << "c" >>],
    [role |-> "assistant", content |-> Null,
     tool_calls |-> << Call(<< "f" >>, << "1" >>) >>],
    [role |-> "tool", name |-> << "f" >>, content |-> << "4" >>],
    [role |-> "tool", tool_call_id |-> << "id" >>, content |-> Null] }

RECURSIVE SeqsUpTo(_, _)
SeqsUpTo(S, n) ==
  IF n = 0 THEN { << >> }
  ELSE LET shorter == SeqsUpTo(S, n - 1)
       IN  shorter \cup { Append(q, x) : q \in { r \in shorter : Len(r) = n - 1 }, x \in S }

\* the names and the arguments of the tool calls of a history: plain ones,
\* ones with white space around them, arguments that are a JSON string
\* holding ARGS_END and TC_END, and arguments that are not JSON
NamePool == { << "f" >>, << "g" >>, << " ", "f" >> }
ArgsPool(m) ==
  { << "1" >>, << "{", "}" >>, << "1", "\n" >>,
    << "\"" >> \o m.ARGS_END \o m.TC_END \o << "\"" >>,
    << "x" >> }
CallPool(m) == { Call(n, a) : n \in NamePool, a \in ArgsPool(m) }

\* the fields of a request beside messages: no tools, a tool with a
\* tool_choice, an empty tool list with a tool_choice
Envelopes ==
  { [model |-> "m", stream |-> TRUE],
    [model |-> "m", stream |-> TRUE, tools |-> << << "f" >> >>, tool_choice |-> "auto"],
    [model |-> "m", stream |-> TRUE, tools |-> << >>, tool_choice |-> "auto"] }

WithMessages(env, messages) ==
  [ f \in DOMAIN env \cup {"messages"} |->
      IF f = "messages" THEN messages ELSE env[f] ]

Requests(m) ==
  { WithMessages(env, msgs) : env \in Envelopes, msgs \in SeqsUpTo(MessagePool(m), MaxMsgs) }
  \cup
  { WithMessages([model |-> "m", tools |-> << << "f" >> >>],
                 << [role |-> "assistant", tool_calls |-> calls] >>) :
      calls \in SeqsUpTo(CallPool(m), MaxCalls) \ { << >> } }
  \cup
  { WithMessages([model |-> "m"],
                 << [role |-> "user", content |-> << "a" >>],
                    [role |-> "assistant", content |-> << "c" >>, tool_calls |-> calls] >>) :
      calls \in SeqsUpTo({ Call(<< "f" >>, << "1" >>), Call(<< "g" >>, << "{", "}" >>) },
                         MaxCalls) \ { << >> } }

(***************************************************************************)
(* The request on its way: transformRequest (called by handleRequest at    *)
(* line 502), transformRequest on its own result, and parse on the text    *)
(* it wrote for a message.                                                 *)
(***************************************************************************)
TransformRequest ==
  /\ stage = "received"
  /\ \E hasTools \in BOOLEAN :
       rewritten' = [ hasTools |-> hasTools,
                      body |-> transformRequest(markers, request, hasTools) ]
  /\ stage' = "rewritten"
  /\ UNCHANGED << markers, streamVars, proxyVars, peer, request, again, parsed >>

TransformAgain ==
  /\ stage = "rewritten"
  /\ \E hasTools \in BOOLEAN :
       again' = transformRequest(markers, rewritten.body, hasTools)
  /\ stage' = "again"
  /\ UNCHANGED << markers, streamVars, proxyVars, peer, request, rewritten, parsed >>

ParseMessage ==
  /\ stage = "rewritten"
  /\ \E i \in 1..Len(rewritten.body.messages), now \in Clock :
       /\ RoleOf(rewritten.body.messages[i]) = "assistant"
       /\ parsed' = [ index |-> i,
                      result |-> parse(markers,
                                       OrEmpty(rewritten.body.messages[i], "content"),
                                       now) ]
  /\ stage' = "parsed"
  /\ UNCHANGED << markers, streamVars, proxyVars, peer, request, rewritten, again >>

NoStream ==
  /\ NewStream
  /\ rest = << >>

NoRequest ==
  /\ request = [messages |-> << >>]
  /\ stage = "received"
  /\ rewritten = [hasTools |-> FALSE, body |-> [messages |-> << >>]]
  /\ again = [messages |-> << >>]
  /\ parsed = [index |-> 0, result |-> [toolCalls |-> << >>, cleanContent |-> << >>]]

(***************************************************************************)
(* validateUpstream and extractUpstream.  The URL after the leading "/" of *)
(* req.originalUrl is a record [scheme, host, path, wellFormed]: host is   *)
(* [kind, text, parts] with kind "name", "ipv4" or "ipv6", text the host   *)
(* as written (an IPv6 address is written between brackets in a URL, text  *)
(* holds the address without them), parts the four numbers of an IPv4      *)
(* literal; wellFormed says whether new url.URL accepts the text.  NoUrl   *)
(* is the originalUrl that holds nothing after the "/".                    *)
(***************************************************************************)
NoUrl == [scheme |-> "#none"]

NoUpstream == [scheme |-> "#null"]

\* reqUrl.match(/^\/(https?:\/\/.+)$/)
extractUpstream(reqUrl) ==
  IF reqUrl.scheme \in {"http", "https"} THEN reqUrl ELSE NoUpstream

\* parsed.hostname of the WHATWG URL: an IPv6 address keeps its brackets
URLHostname(host) ==
  IF host.kind = "ipv6" THEN << "[" >> \o host.text \o << "]" >> ELSE host.text

\* address.split('.').map(Number): the four numbers of an IPv4 address; an
\* IPv6 address has no dot and gives one element
AddressParts(address) ==
  IF address.family = 4 THEN address.parts ELSE << "NaN" >>

\* the check of the resolved address (lines 50-56): the error, << >> if none
PrivateRange(parts) ==
  IF Len(parts) # 4 THEN << >>
  ELSE IF parts[1] = 10 THEN << "Private IP range (10.x.x.x) denied" >>
  ELSE IF parts[1] = 172 /\ parts[2] >= 16 /\ parts[2] <= 31
       THEN << "Private IP range (172.16-31.x.x) denied" >>
  ELSE IF parts[1] = 192 /\ parts[2] = 168
       THEN << "Private IP range (192.168.x.x) denied" >>
  ELSE IF parts[1] = 127 THEN << "Loopback IP denied" >>
  ELSE << >>

Valid == [valid |-> TRUE, error |-> << >>]
Invalid(error) == [valid |-> FALSE, error |-> error]

\* the part of validateUpstream after the hostname check; lookup is what
\* dns.lookup(hostname) does: [ok, address], ok FALSE when it rejects
CheckResolved(lookup) ==
  IF ~lookup.ok THEN Valid
  ELSE IF PrivateRange(AddressParts(lookup.address)) # << >>
       THEN Invalid(PrivateRange(AddressParts(lookup.address)))
       ELSE Valid

\* whether validateUpstream gets as far as dns.lookup
CallsLookup(upstreamUrl, allowLocalNet) ==
  /\ upstreamUrl # NoUpstream
  /\ upstreamUrl.wellFormed
  /\ upstreamUrl.scheme \in {"http", "https"}
  /\ ~allowLocalNet
  /\ URLHostname(upstreamUrl.host) \notin
       { << "localhost" >>, << "127.0.0.1" >>, << "::1" >>, << "0.0.0.0" >> }

validateUpstream(upstreamUrl, allowLocalNet, lookup) ==
  IF upstreamUrl = NoUpstream THEN Invalid(<< "Missing upstream URL" >>)
  ELSE IF ~upstreamUrl.wellFormed THEN Invalid(<< "Invalid URL format" >>)
  ELSE IF upstreamUrl.scheme \notin {"http", "https"}
       THEN Invalid(<< "Invalid protocol (http/https only)" >>)
  ELSE IF allowLocalNet THEN Valid
  ELSE IF URLHostname(upstreamUrl.host) \in
            { << "localhost" >>, << "127.0.0.1" >>, << "::1" >>, << "0.0.0.0" >> }
       THEN Invalid(<< "Localhost access denied (Set ALLOW_LOCAL_NET=true to enable)" >>)
  ELSE CheckResolved(lookup)

\* the addresses a name may resolve to: inside and just outside each range
\* of lines 53-56, a public one, and an IPv6 one
IPv4(a, b, c, d) == [family |-> 4, parts |-> << a, b, c, d >>]

Addresses ==
  { IPv4(10, 0, 0, 1), IPv4(11, 0, 0, 1),
    IPv4(172, 15, 0, 1), IPv4(172, 16, 0, 1), IPv4(172, 31, 0, 1), IPv4(172, 32, 0, 1),
    IPv4(192, 168, 0, 1), IPv4(192, 169, 0, 1),
    IPv4(127, 0, 0, 2), IPv4(8, 8, 8, 8),
    [family |-> 6, parts |-> << >>] }

NotCalled == [ok |-> FALSE, called |-> FALSE, address |-> IPv4(0, 0, 0, 0)]
LookupFailed == [ok |-> FALSE, called |-> TRUE, address |-> IPv4(0, 0, 0, 0)]
LookupGave(address) == [ok |-> TRUE, called |-> TRUE, address |-> address]

\* what dns.lookup may do for a host: an IPv4 literal is answered as it is;
\* a name resolves to any address or fails; the bracketed text of an IPv6
\* address is no name getaddrinfo knows and no address dns.lookup
\* recognises, so it fails, or a resolver answers with an IPv6 address
Lookups(host) ==
  IF host.kind = "ipv4" THEN { LookupGave([family |-> 4, parts |-> host.parts]) }
  ELSE IF host.kind = "ipv6"
       THEN { LookupFailed, LookupGave([family |-> 6, parts |-> << >>]) }
  ELSE { LookupFailed } \cup { LookupGave(a) : a \in Addresses }

(***************************************************************************)
(* handleRequest.  The body of the upstream response is its bytes: the     *)
(* wire of an SSE stream, or one element "#json" for a JSON text, whose    *)
(* parsed value is data.                                                   *)
(***************************************************************************)
\* upstream.includes('/chat/completions')
isChatCompletions(upstreamUrl) == upstreamUrl.path = << "/v1", "/chat/completions" >>

\* a faulty variant of line 490: the URL is not looked at
hasToolsAnyUrl(upstreamUrl, body) ==
  Has(body, "tools") /\ Len(body.tools) > 0

\* body?.tools?.length > 0, with isChatCompletions (line 490)
hasToolsOf(upstreamUrl, body) ==
  /\ isChatCompletions(upstreamUrl)
  /\ Has(body, "tools") /\ Len(body.tools) > 0

\* body?.stream === true
isStreamOf(body) == Has(body, "stream") /\ body.stream = TRUE

\* body?.messages?.some(...) (lines 494-496)
hasToolHistoryOf(body) ==
  \E i \in 1..Len(body.messages) :
    \/ RoleOf(body.messages[i]) = "tool"
    \/ RoleOf(body.messages[i]) = "assistant" /\ HasToolCalls(body.messages[i])

needsTransformOf(upstreamUrl, body) ==
  /\ isChatCompletions(upstreamUrl)
  /\ (hasToolsOf(upstreamUrl, body) \/ hasToolHistoryOf(body))

\* the body given to fetch (lines 501-503)
OutgoingBody(m, upstreamUrl, body) ==
  IF needsTransformOf(upstreamUrl, body)
  THEN transformRequest(m, body, hasToolsOf(upstreamUrl, body))
  ELSE body

\* the bytes of the body of an upstream response
BodyBytes(r) == IF r.kind = "sse" THEN r.wire ELSE << "#json" >>

\* branch A as a whole: the frames the transformer pushes for the bytes
\* written to it and the flush of transformer.end()
StreamFrames(m, bytes, now) ==
  flush(m, transform(m,
                     [ lineBuffer |-> << >>, contentBuffer |-> << >>,
                       isBuffering |-> FALSE, pendingText |-> << >>,
                       streamEnded |-> FALSE, out |-> << >> ],
                     bytes, now),
        now).out

\* data.choices?.[0]?.message?.content is truthy
HasContent(data) ==
  /\ Has(data, "choices") /\ Len(data.choices) > 0
  /\ Has(data.choices[1], "message")
  /\ Has(data.choices[1].message, "content")
  /\ data.choices[1].message.content # Null
  /\ data.choices[1].message.content # << >>

\* a faulty variant of lines 577-579: the content is set to the clean text
\* even when that is empty, never to null
SetToolCallsEmptyText(data, p) ==
  [ data EXCEPT !.choices =
      [ i \in 1..Len(data.choices) |->
          IF i # 1 THEN data.choices[i]
          ELSE [ f \in DOMAIN data.choices[1] \cup {"finish_reason"} |->
                   IF f = "finish_reason" THEN "tool_calls"
                   ELSE IF f = "message"
                        THEN [ g \in DOMAIN data.choices[1].message \cup {"tool_calls"} |->
                                 IF g = "tool_calls" THEN p.toolCalls
                                 ELSE IF g = "content" THEN p.cleanContent
                                      ELSE data.choices[1].message[g] ]
                        ELSE data.choices[1][f] ] ] ]

\* lines 577-579 for the result p of parse
SetToolCalls(data, p) ==
  [ data EXCEPT !.choices =
      [ i \in 1..Len(data.choices) |->
          IF i # 1 THEN data.choices[i]
          ELSE [ f \in DOMAIN data.choices[1] \cup {"finish_reason"} |->
                   IF f = "finish_reason" THEN "tool_calls"
                   ELSE IF f = "message"
                        THEN [ g \in DOMAIN data.choices[1].message \cup {"tool_calls"} |->
                                 IF g = "tool_calls" THEN p.toolCalls
                                 ELSE IF g = "content"
                                      THEN (IF p.cleanContent = << >> THEN Null
                                            ELSE p.cleanContent)
                                      ELSE data.choices[1].message[g] ]
                        ELSE data.choices[1][f] ] ] ]

ApplyParsed(data, p) ==
  IF Len(p.toolCalls) > 0 THEN SetToolCalls(data, p) ELSE data

\* branch C (lines 574-581): the value given to res.json
NonStreaming(m, data, hasTools, now) ==
  IF hasTools /\ HasContent(data)
  THEN ApplyParsed(data, parse(m, data.choices[1].message.content, now))
  ELSE data

\* the answers of handleRequest
NoReply == [status |-> 0, kind |-> "none", branch |-> "", body |-> << >>]

Denied(error) ==
  [ status |-> 403, kind |-> "security_error", branch |-> "",
    body |-> << "Access denied: " >> \o error ]

ProxyError ==
  [status |-> 502, kind |-> "proxy_error", branch |-> "", body |-> << >>]

\* ---- the requests and the upstream responses of the model ----
Hosts ==
  { [kind |-> "name", text |-> << "localhost" >>, parts |-> << >>],
    [kind |-> "ipv4", text |-> << "127.0.0.1" >>, parts |-> << 127, 0, 0, 1 >>],
    [kind |-> "ipv6", text |-> << "::1" >>, parts |-> << >>],
    [kind |-> "ipv4", text |-> << "0.0.0.0" >>, parts |-> << 0, 0, 0, 0 >>],
    [kind |-> "ipv4", text |-> << "10.0.0.5" >>, parts |-> << 10, 0, 0, 5 >>],
    [kind |-> "name", text |-> << "api.example.com" >>, parts |-> << >>] }

Paths == { << "/v1", "/chat/completions" >>, << "/v1", "/models" >> }

Urls ==
  { NoUrl,
    [ scheme |-> "ftp", host |-> [kind |-> "name", text |-> << "api.example.com" >>,
                                     parts |-> << >>],
      path |-> << "/v1", "/chat/completions" >>, wellFormed |-> TRUE ],
    [ scheme |-> "http", host |-> [kind |-> "name", text |-> << "a b" >>, parts |-> << >>],
      path |-> << "/v1", "/chat/completions" >>, wellFormed |-> FALSE ] }
  \cup
  { [scheme |-> "http", host |-> h, path |-> q, wellFormed |-> TRUE] :
      h \in Hosts, q \in Paths }
  \cup
  { [ scheme |-> "https", host |-> [kind |-> "name", text |-> << "api.example.com" >>,
                                       parts |-> << >>],
      path |-> << "/v1", "/chat/completions" >>, wellFormed |-> TRUE ] }

\* the bodies: stream true, false or absent; tools absent, empty or
\* declared; a history with or without tool messages
StreamFields ==
  { [x \in {} |-> TRUE], [stream |-> TRUE], [stream |-> FALSE] }

ToolFields ==
  { [x \in {} |-> TRUE], [tools |-> << >>], [tools |-> << << "f" >> >>, tool_choice |-> "auto"] }

Histories(m) ==
  { << [role |-> "user", content |-> << "a" >>] >>,
    << [role |-> "user", content |-> << "a" >>],
       [role |-> "assistant", content |-> Null,
        tool_calls |-> << Call(<< "f" >>, << "1" >>) >>],
       [role |-> "tool", name |-> << "f" >>, content |-> << "4" >>] >> }

Merged(a, b) ==
  [ f \in DOMAIN a \cup DOMAIN b |-> IF f \in DOMAIN a THEN a[f] ELSE b[f] ]

Bodies(m) ==
  { Merged([model |-> "m", messages |-> h], Merged(sf, tf)) :
      h \in Histories(m), sf \in StreamFields, tf \in ToolFields }

\* the contents of the message of a choice: none, plain text, text and an
\* envelope, an envelope alone, a rejected envelope, a rejected one and a
\* well-formed one
Contents(m) ==
  { Null, << "h" >>,
    << "a" >> \o EncodeCall(m, Call(<< "f" >>, << "1" >>)),
    Block(m, << "f" >>, << "1" >>),
    << "a" >> \o Block(m, << "f" >>, << "x" >>),
    Block(m, << "f" >>, << "x" >>) \o << "b" >> \o Block(m, << "g" >>, << "1" >>) }

Choice(i, content) ==
  [ index |-> i, message |-> [role |-> "assistant", content |-> content],
    finish_reason |-> "stop" ]

Datas(m) ==
  { [id |-> "r", choices |-> << >>, usage |-> "u"] }
  \cup
  { [id |-> "r", choices |-> << Choice(0, c) >>, usage |-> "u"] : c \in Contents(m) }
  \cup
  { [ id |-> "r", usage |-> "u",
      choices |-> << Choice(0, c), Choice(1, Block(m, << "g" >>, << "1" >>)) >> ] :
      c \in Contents(m) }

NoData == [id |-> "#none"]

Wires(m) ==
  { ContentLine(<< "a" >> \o Block(m, << "f" >>, << "1" >>)) \o << LF >> \o DoneLine \o << LF >>,
    ContentLine(<< "h" >>) \o << LF >> }

UpstreamResponses(m) ==
  { [ok |-> TRUE, status |-> 200, kind |-> "json", wire |-> << >>, data |-> d] :
      d \in Datas(m) }
  \cup
  { [ok |-> TRUE, status |-> 200, kind |-> "sse", wire |-> w, data |-> NoData] :
      w \in Wires(m) }
  \cup
  { [ok |-> FALSE, status |-> 500, kind |-> "json", wire |-> << >>, data |-> NoData] }

NoResponse == [ok |-> FALSE, status |-> 0, kind |-> "none", wire |-> << >>, data |-> NoData]

\* ---- the steps of handleRequest ----
\* lines 474-484: validateUpstream, and the 403 when it says invalid
Gate(v) ==
  IF v.valid
  THEN /\ pc' = "validated"
       /\ reply' = reply
  ELSE /\ pc' = "done"
       /\ reply' = Denied(v.error)

ValidateUpstream ==
  /\ pc = "received"
  /\ \E lookup \in (IF CallsLookup(extractUpstream(hreq.url), config.ALLOW_LOCAL_NET)
                    THEN Lookups(hreq.url.host) ELSE { NotCalled }) :
       /\ resolved' = lookup
       /\ Gate(validateUpstream(extractUpstream(hreq.url), config.ALLOW_LOCAL_NET, lookup))
  /\ UNCHANGED << markers, streamVars, requestVars, peer, config, hreq, sentBody, upRes >>

\* lines 486-523: the body is rewritten if needed and given to fetch, which
\* rejects or resolves; a response that is not ok is mirrored
Fetch ==
  /\ pc = "validated"
  /\ sentBody' = Append(sentBody, OutgoingBody(markers, hreq.url, hreq.body))
  /\ \/ /\ upRes' = NoResponse
        /\ pc' = "done"
        /\ reply' = ProxyError
     \/ \E r \in UpstreamResponses(markers) :
          /\ upRes' = r
          /\ IF r.ok
             THEN /\ pc' = "fetched"
                  /\ reply' = reply
             ELSE /\ pc' = "done"
                  /\ reply' = [ status |-> r.status, kind |-> "upstream_error",
                                branch |-> "", body |-> BodyBytes(r) ]
  /\ UNCHANGED << markers, streamVars, requestVars, peer, config, hreq, resolved >>

\* lines 525-584: branch A, B or C
Respond ==
  /\ pc = "fetched"
  /\ pc' = "done"
  /\ \E now \in Clock :
       reply' =
         IF isStreamOf(hreq.body) /\ hasToolsOf(hreq.url, hreq.body)
         THEN [ status |-> 200, kind |-> "sse", branch |-> "A",
                body |-> StreamFrames(markers, BodyBytes(upRes), now) ]
         ELSE IF isStreamOf(hreq.body)
              THEN [ status |-> 200, kind |-> "raw", branch |-> "B",
                     body |-> BodyBytes(upRes) ]
         ELSE IF upRes.kind # "json" THEN ProxyError
         ELSE [ status |-> 200, kind |-> "json", branch |-> "C",
                body |-> NonStreaming(markers, upRes.data,
                                      hasToolsOf(hreq.url, hreq.body), now) ]
  /\ UNCHANGED << markers, streamVars, requestVars, peer, config, hreq, resolved,
                  sentBody, upRes >>

\* the variables of lines 324-328 as createStreamTransformer declares them,
\* and nothing pushed
createStreamTransformer ==
  [ lineBuffer |-> << >>, contentBuffer |-> << >>, isBuffering |-> FALSE,
    pendingText |-> << >>, streamEnded |-> FALSE, out |-> << >> ]

\* a second transformer for a body of the given bytes
NewPeer(bytes) ==
  [ lineBuffer |-> << >>, contentBuffer |-> << >>, isBuffering |-> FALSE,
    pendingText |-> << >>, streamEnded |-> FALSE, out |-> << >>,
    rest |-> bytes, sent |-> << >>, phase |-> "reading" ]

\* no second request is being served
NoPeer == peer = [NewPeer(<< >>) EXCEPT !.phase = "ended"]

NoProxy ==
  /\ config = [ALLOW_LOCAL_NET |-> FALSE]
  /\ hreq = [url |-> NoUrl, body |-> [messages |-> << >>]]
  /\ pc = "done"
  /\ resolved = NotCalled
  /\ sentBody = << >>
  /\ upRes = NoResponse
  /\ reply = NoReply

\* the tool-enabled streaming path with an upstream that does not fail
Init ==
  /\ markers \in { ms \in MarkerSets : ms.RESULT_START[2] = ms.TC_START[2] }
  /\ NewStream
  /\ rest \in Outputs(markers)
  /\ NoRequest
  /\ NoProxy
  /\ NoPeer

Next == ReadDelta \/ ReadDone \/ ReadOther \/ ReadEnd

Spec == Init /\ [][Next]_vars

\* the same path with a reader that may fail and a client that may leave
LoopInit ==
  /\ markers \in { ms \in MarkerSets : ms.RESULT_START[2] = ms.TC_START[2] }
  /\ NewStream
  /\ rest \in LoopOutputs(markers)
  /\ NoRequest
  /\ NoProxy
  /\ NoPeer

LoopNext ==
  ReadDelta \/ ReadDone \/ ReadOther \/ ReadEnd \/ ReadError \/ ClientDisconnect

LoopSpec == LoopInit /\ [][LoopNext]_vars

\* the request transcoder on the requests of Requests, under a marker set of
\* each row shape
RequestInit ==
  /\ markers \in { generateMarkers(DELIMITER_SETS[i], SUFFIX_POOL[1], SUFFIX_POOL[i]) :
                     i \in Rows }
  /\ NoStream
  /\ request \in Requests(markers)
  /\ stage = "received"
  /\ rewritten = [hasTools |-> FALSE, body |-> [messages |-> << >>]]
  /\ again = [messages |-> << >>]
  /\ parsed = [index |-> 0, result |-> [toolCalls |-> << >>, cleanContent |-> << >>]]
  /\ NoProxy
  /\ NoPeer

RequestNext == TransformRequest \/ TransformAgain \/ ParseMessage

RequestSpec == RequestInit /\ [][RequestNext]_vars

\* handleRequest on the requests of Urls and Bodies, with ALLOW_LOCAL_NET
\* off or on
HandleInit ==
  /\ markers = generateMarkers(DELIMITER_SETS[1], SUFFIX_POOL[1], SUFFIX_POOL[1])
  /\ NoStream
  /\ NoRequest
  /\ config \in { [ALLOW_LOCAL_NET |-> b] : b \in BOOLEAN }
  /\ hreq \in { [url |-> u, body |-> b] : u \in Urls, b \in Bodies(markers) }
  /\ pc = "received"
  /\ resolved = NotCalled
  /\ sentBody = << >>
  /\ upRes = NoResponse
  /\ reply = NoReply
  /\ NoPeer

HandleNext == ValidateUpstream \/ Fetch \/ Respond

HandleSpec == HandleInit /\ [][HandleNext]_vars

\* the same path for model outputs of several envelopes: three of which
\* the second is rejected, and two with text around them
MultiOutputs(m) ==
  { Block(m, << "f" >>, << "1" >>) \o Block(m, << "g" >>, << "x" >>) \o
      Block(m, << "h" >>, << "{", "}" >>),
    << "a" >> \o Block(m, << "g" >>, << "1" >>) \o << "\n" >> \o
      Block(m, << "f" >>, << "1" >>) }

MultiInit ==
  /\ markers = generateMarkers(DELIMITER_SETS[2], SUFFIX_POOL[1], SUFFIX_POOL[2])
  /\ NewStream
  /\ rest \in MultiOutputs(markers)
  /\ NoRequest
  /\ NoProxy
  /\ NoPeer

MultiSpec == MultiInit /\ [][Next]_vars

\* the transformer given the bytes of an upstream body in chunks cut at any
\* place: rest holds the bytes not yet written, sent those written
ChunkWires(m) ==
  { ContentLine(<< "a" >> \o Block(m, << "f" >>, << "1" >>)) \o << LF, LF >> \o
      RoleLine \o << LF >> \o DoneLine,
    ContentLine(<< "a", m.TC_START[1] >>) \o << "\r", LF >> \o CommentLine \o << LF >> \o
      ContentLine(<< "b" >>) \o << LF >> \o DoneLine \o << LF >> \o
      ContentLine(<< "c" >>) \o << LF >> }

\* transformer.write(chunk) for the next k bytes; up.deltas counts the chunks
WriteChunk ==
  /\ phase = "reading"
  /\ \E k \in 1..Len(rest) :
       /\ Write(SubSeq(rest, 1, k))
       /\ rest' = SubSeq(rest, k + 1, Len(rest))
       /\ sent' = sent \o SubSeq(rest, 1, k)
  /\ up' = [up EXCEPT !.deltas = IF @ < MaxChunks THEN @ + 1 ELSE @]
  /\ UNCHANGED << markers, phase, conn, requestVars, proxyVars, peer >>

\* the body ends after the bytes written so far: transformer.end() runs flush
EndOfBody ==
  /\ phase = "reading"
  /\ \E now \in Clock : SetSt(flush(markers, St, now))
  /\ phase' = "ended"
  /\ UNCHANGED << markers, rest, sent, up, conn, requestVars, proxyVars, peer >>

ChunkInit ==
  /\ markers \in { ms \in MarkerSets : ms.RESULT_START[2] = ms.TC_START[2] }
  /\ NewStream
  /\ rest \in ChunkWires(markers)
  /\ NoRequest
  /\ NoProxy
  /\ NoPeer

ChunkNext == WriteChunk \/ EndOfBody

ChunkSpec == ChunkInit /\ [][ChunkNext]_vars

(***************************************************************************)
(* Two streaming requests served at the same time.  Each call of           *)
(* createStreamTransformer (line 531) declares its own lineBuffer,         *)
(* contentBuffer, isBuffering, pendingText and streamEnded (324-328); the  *)
(* functions of the closure read and write those, delimiter.markers and    *)
(* Date.now().  The event loop runs one transformer.write or               *)
(* transformer.end to its end before the next, in any order of the two     *)
(* requests.  A step writes one frame: the bytes up to and with the next   *)
(* LF of the body, or what is left of it.                                  *)
(***************************************************************************)
\* how many bytes the next frame of a body has
FrameLen(bytes) ==
  IF IndexOf(bytes, << LF >>) = 0 THEN Len(bytes) ELSE IndexOf(bytes, << LF >>)

\* the bodies of the two upstream responses: an envelope whose text comes in
\* two deltas, then [DONE]; the first code point of TC_START, text, an
\* envelope, and no [DONE]
PairWires(m) ==
  { ContentLine(<< "a" >> \o m.TC_START \o m.NAME_START \o << "f" >>) \o << LF >> \o
      ContentLine(m.NAME_END \o m.ARGS_START \o << "1" >> \o m.ARGS_END \o m.TC_END) \o
      << LF >> \o DoneLine \o << LF >>,
    ContentLine(<< "a", m.TC_START[1] >>) \o << LF >> \o
      ContentLine(<< "b" >> \o m.TC_START \o m.NAME_START) \o << LF >> \o
      ContentLine(<< "g" >> \o m.NAME_END \o m.ARGS_START \o << "{", "}" >> \o
                  m.ARGS_END \o m.TC_END) }

\* a faulty variant of lines 325-326: contentBuffer and isBuffering are
\* declared once for the module, the second transformer reads those of the
\* first
PeerStSharedBuffer ==
  [ lineBuffer |-> peer.lineBuffer, contentBuffer |-> contentBuffer,
    isBuffering |-> isBuffering, pendingText |-> peer.pendingText,
    streamEnded |-> peer.streamEnded, out |-> peer.out ]

\* the variables the closure of the second transformer reads: its own
PeerSt ==
  [ lineBuffer |-> peer.lineBuffer, contentBuffer |-> peer.contentBuffer,
    isBuffering |-> peer.isBuffering, pendingText |-> peer.pendingText,
    streamEnded |-> peer.streamEnded, out |-> peer.out ]

\* the second transformer after a step left its variables as st
PeerAfter(st, bytes, written, ph) ==
  [ lineBuffer |-> st.lineBuffer, contentBuffer |-> st.contentBuffer,
    isBuffering |-> st.isBuffering, pendingText |-> st.pendingText,
    streamEnded |-> st.streamEnded, out |-> st.out,
    rest |-> bytes, sent |-> written, phase |-> ph ]

\* transformer.write(chunk) of the first request for its next frame
WriteFrame ==
  /\ phase = "reading"
  /\ rest # << >>
  /\ Write(SubSeq(rest, 1, FrameLen(rest)))
  /\ rest' = SubSeq(rest, FrameLen(rest) + 1, Len(rest))
  /\ sent' = sent \o SubSeq(rest, 1, FrameLen(rest))
  /\ UNCHANGED << markers, phase, up, conn, requestVars, proxyVars, peer >>

\* the body of the first request is at its end: transformer.end() runs flush
EndFrames ==
  /\ phase = "reading"
  /\ rest = << >>
  /\ \E now \in Clock : SetSt(flush(markers, St, now))
  /\ phase' = "ended"
  /\ UNCHANGED << markers, rest, sent, up, conn, requestVars, proxyVars, peer >>

\* transformer.write(chunk) of the second request for its next frame
PeerWriteFrame ==
  /\ peer.phase = "reading"
  /\ peer.rest # << >>
  /\ \E now \in Clock :
       peer' = PeerAfter(transform(markers, PeerSt,
                                   SubSeq(peer.rest, 1, FrameLen(peer.rest)), now),
                         SubSeq(peer.rest, FrameLen(peer.rest) + 1, Len(peer.rest)),
                         peer.sent \o SubSeq(peer.rest, 1, FrameLen(peer.rest)),
                         "reading")
  /\ UNCHANGED << markers, streamVars, requestVars, proxyVars >>

\* the body of the second request is at its end
PeerEndFrames ==
  /\ peer.phase = "reading"
  /\ peer.rest = << >>
  /\ \E now \in Clock :
       peer' = PeerAfter(flush(markers, PeerSt, now), peer.rest, peer.sent, "ended")
  /\ UNCHANGED << markers, streamVars, requestVars, proxyVars >>

\* the marker set the process drew when it started
PairMarkers == generateMarkers(DELIMITER_SETS[1], SUFFIX_POOL[1], SUFFIX_POOL[2])

PairInit ==
  /\ markers = PairMarkers
  /\ NewStream
  /\ rest \in PairWires(markers)
  /\ peer \in { NewPeer(w) : w \in PairWires(markers) }
  /\ NoRequest
  /\ NoProxy

PairNext == WriteFrame \/ EndFrames \/ PeerWriteFrame \/ PeerEndFrames

PairSpec == PairInit /\ [][PairNext]_vars

(***************************************************************************)
(* What the properties below read off a state.                             *)
(***************************************************************************)
\* the concatenation of the content deltas among the frames
RECURSIVE TextOf(_)
TextOf(frames) ==
  IF Len(frames) = 0 THEN << >>
  ELSE (IF frames[1].kind = "content" THEN frames[1].content ELSE << >>)
       \o TextOf(Tail(frames))

HasKind(frames, k) == \E i \in 1..Len(frames) : frames[i].kind = k

Contains(s, p) == IndexOf(s, p) # 0

\* the upstream sent [DONE] on a line of its own, nothing after it, and the
\* reader did not fail
CleanDone ==
  /\ up.done /\ ~up.late /\ ~conn.failed
  /\ phase = "reading"

\* the stream is over: [DONE] was processed or the body ended; no content
\* came after [DONE] and the reader did not fail
Over ==
  /\ ~up.late /\ ~conn.failed
  /\ \/ phase = "ended"
     \/ phase = "reading" /\ up.done

(***************************************************************************)
(* C1.  Delimiter non-leak: when the content the upstream sent holds no    *)
(* TC_START and the stream is over ([DONE] or end of body), the content    *)
(* deltas pushed concatenate to the content received and no tool_calls     *)
(* delta was pushed.                                                       *)
(***************************************************************************)
C1_NonLeak ==
  (Over /\ ~Contains(sent, markers.TC_START))
    => /\ TextOf(out) = sent
       /\ ~HasKind(out, "tool_calls")

\* a finished stream of two deltas whose text holds the first code point of
\* TC_START and the first two in a row, and that was held back in pendingText
C1_Witness ==
  /\ Over /\ phase = "ended" /\ up.done
  /\ up.deltas = 2
  /\ ~Contains(sent, markers.TC_START)
  /\ Contains(sent, SubSeq(markers.TC_START, 1, 2))
  /\ TextOf(out) = sent
  /\ Len(out) = 3

(***************************************************************************)
(* C2.  Stream round-trip: when the content sent is PREFIX followed by the *)
(* encoding of one tool call with JSON arguments, PREFIX free of TC_START, *)
(* and [DONE] has been processed, the frames pushed are content deltas     *)
(* that concatenate to PREFIX, one tool_calls delta with the name and the  *)
(* arguments of the call, the finish chunk "tool_calls", and [DONE].       *)
(***************************************************************************)
RoundTripCases(m) ==
  { [prefix |-> << "a" >>, call |-> Call(<< "f" >>, << "1" >>)],
    [prefix |-> << m.TC_START[1] >>, call |-> Call(<< "f" >>, << "1" >>)] }

IsRoundTrip(frames, prefix, call) ==
  LET n == Len(frames)
  IN  /\ n >= 3
      /\ \A i \in 1..(n - 3) : frames[i].kind = "content"
      /\ TextOf(frames) = prefix
      /\ frames[n - 2].kind = "tool_calls"
      /\ frames[n - 2].call.function = call.function
      /\ frames[n - 1] = [kind |-> "finish", reason |-> "tool_calls"]
      /\ frames[n] = [kind |-> "[DONE]"]

C2_RoundTrip ==
  \A c \in RoundTripCases(markers) :
    (CleanDone /\ sent = c.prefix \o EncodeCall(markers, c.call))
      => IsRoundTrip(out, c.prefix, c.call)

(***************************************************************************)
(* C3.  Order preservation: when the content sent begins with a            *)
(* well-formed envelope, all the text of the stream arrives after that     *)
(* envelope, so no content delta is pushed before the tool_calls delta of  *)
(* the envelope (the one with index 0).                                    *)
(***************************************************************************)
C3_OrderPreserved ==
  (/\ Over
   /\ MatchesAt(markers, sent, 1)
   /\ JSONParseOk(Trim(MatchAt(markers, sent, 1).args)))
    => \A i, j \in 1..Len(out) :
         (i < j /\ out[j].kind = "tool_calls" /\ out[j].index = 0)
           => out[i].kind # "content"

(***************************************************************************)
(* C4.  A malformed tool call degrades to text: when the content sent      *)
(* holds an envelope whose arguments are not JSON and the stream is over,  *)
(* the envelope is no tool call of the output and the whole block,         *)
(* delimiters included, is part of the content pushed.                     *)
(***************************************************************************)
C4_MalformedIsText ==
  \A i \in 1..Len(sent) :
    (/\ Over
     /\ MatchesAt(markers, sent, i)
     /\ Exec(markers, sent, 1) = i
     /\ ~JSONParseOk(Trim(MatchAt(markers, sent, i).args)))
      => /\ Contains(TextOf(out),
                     SubSeq(sent, i, MatchAt(markers, sent, i).next - 1))
         /\ \A k \in 1..Len(out) :
              out[k].kind = "tool_calls"
                => out[k].call.function.arguments # Trim(MatchAt(markers, sent, i).args)

(***************************************************************************)
(* C5.  No synthetic completion on a streaming failure: when reader.read() *)
(* rejected before [DONE] was received, no frame pushed after the failure  *)
(* is a finish chunk, a tool_calls delta or [DONE].                        *)
(***************************************************************************)
C5_NoSyntheticCompletion ==
  (conn.failed /\ ~up.done)
    => \A i \in 1..Len(out) :
         i > conn.failedAt => out[i].kind \notin {"finish", "tool_calls", "[DONE]"}

(***************************************************************************)
(* C6.  Cancellation on client disconnect: once the client is gone, the    *)
(* read loop takes at most the one reader.read() it was waiting for, the   *)
(* terminal flush does not run, and no finish chunk and no tool_calls      *)
(* delta is pushed.                                                        *)
(***************************************************************************)
C6_CancelOnDisconnect ==
  conn.gone
    => /\ conn.reads <= 1
       /\ \A i \in 1..Len(out) :
            i > conn.goneAt => out[i].kind \notin {"finish", "tool_calls", "[DONE]"}

(***************************************************************************)
(* C7.  The messages transformRequest returns hold no two consecutive      *)
(* messages of the same role.                                              *)
(***************************************************************************)
Alternates(messages) ==
  \A i \in 1..(Len(messages) - 1) : RoleOf(messages[i]) # RoleOf(messages[i + 1])

C7_NoAdjacentSameRole ==
  stage # "received" => Alternates(rewritten.body.messages)

\* a request whose tool message becomes a user message next to a user
\* message, rewritten with a system prompt prepended
C7_Witness ==
  /\ stage = "rewritten"
  /\ rewritten.hasTools
  /\ Len(request.messages) = 3
  /\ RoleOf(request.messages[1]) = "user"
  /\ RoleOf(request.messages[2]) = "tool"
  /\ RoleOf(request.messages[3]) = "tool"
  /\ Has(request, "tools") /\ Len(request.tools) > 0
  /\ Len(rewritten.body.messages) = 2

(***************************************************************************)
(* C8.  Frame of transformRequest on a request without tools and without   *)
(* tool history.                                                           *)
(***************************************************************************)
DeclaresNoTools(r) == ~Has(r, "tools") \/ Len(r.tools) = 0

NoToolHistory(r) ==
  \A i \in 1..Len(r.messages) :
    /\ RoleOf(r.messages[i]) # "tool"
    /\ ~(RoleOf(r.messages[i]) = "assistant" /\ HasToolCalls(r.messages[i]))

\* the request without the keys tools and tool_choice
Without(r, keys) == [f \in DOMAIN r \ keys |-> r[f]]

\* C8 as claimed: for every request that declares no tools and has no tool
\* history, the result equals the request except that tools and tool_choice
\* are absent
C8_FrameAsClaimed ==
  (stage = "rewritten" /\ DeclaresNoTools(request) /\ NoToolHistory(request))
    => rewritten.body = Without(request, {"tools", "tool_choice"})

\* every system message has just a role and a text content
PlainSystem(r) ==
  \A i \in 1..Len(r.messages) :
    RoleOf(r.messages[i]) = "system"
      => /\ DOMAIN r.messages[i] = {"role", "content"}
         /\ r.messages[i].content # Null

\* C8 as amended: the same, for the requests in which moreover no two
\* consecutive messages share a role and every system message has just a
\* role and a text content
C8_Frame ==
  (/\ stage = "rewritten" /\ DeclaresNoTools(request) /\ NoToolHistory(request)
   /\ Alternates(request.messages) /\ PlainSystem(request))
    => rewritten.body = Without(request, {"tools", "tool_choice"})

\* such a request of three messages, with a tool_choice to delete
C8_Witness ==
  /\ stage = "rewritten" /\ DeclaresNoTools(request) /\ NoToolHistory(request)
  /\ Alternates(request.messages) /\ PlainSystem(request)
  /\ Len(request.messages) = 3
  /\ RoleOf(request.messages[1]) = "system"
  /\ Has(request, "tool_choice")
  /\ ~Has(rewritten.body, "tool_choice")

(***************************************************************************)
(* C9.  Encode/parse round-trip.                                           *)
(***************************************************************************)
\* the request is one assistant message with tool calls and no content,
\* rewritten with hasTools, and parsed is the parse of the text written
\* for it
EncodedHistory ==
  /\ stage = "parsed"
  /\ rewritten.hasTools
  /\ Len(request.messages) = 1
  /\ RoleOf(request.messages[1]) = "assistant"
  /\ HasToolCalls(request.messages[1])
  /\ ~Has(request.messages[1], "content")
  /\ parsed.index = Len(rewritten.body.messages)

AllJSON(calls) ==
  \A i \in 1..Len(calls) : JSONParseOk(calls[i].function.arguments)

\* the result of parse is the list of calls, function by function, with no
\* text left and ids that differ
RoundTrips(calls, result) ==
  /\ Len(result.toolCalls) = Len(calls)
  /\ \A i \in 1..Len(calls) : result.toolCalls[i].function = calls[i].function
  /\ result.cleanContent = << >>
  /\ \A i, j \in 1..Len(result.toolCalls) :
       i # j => result.toolCalls[i].id # result.toolCalls[j].id

\* C9 as claimed: for every list of calls whose arguments are valid JSON
C9_RoundTripAsClaimed ==
  (EncodedHistory /\ AllJSON(request.messages[1].tool_calls))
    => RoundTrips(request.messages[1].tool_calls, parsed.result)

AnyMarker(m, s) ==
  \E k \in DOMAIN m : Contains(s, m[k])

\* names and arguments without white space at their ends and without an
\* occurrence of a marker
Canonical(m, calls) ==
  \A i \in 1..Len(calls) :
    /\ Trim(calls[i].function.name) = calls[i].function.name
    /\ Trim(calls[i].function.arguments) = calls[i].function.arguments
    /\ ~AnyMarker(m, calls[i].function.name)
    /\ ~AnyMarker(m, calls[i].function.arguments)

\* C9 as amended: for every list of calls whose arguments are valid JSON
\* and whose names and arguments have no white space at their ends and hold
\* no marker
C9_RoundTrip ==
  (/\ EncodedHistory /\ AllJSON(request.messages[1].tool_calls)
   /\ Canonical(markers, request.messages[1].tool_calls))
    => RoundTrips(request.messages[1].tool_calls, parsed.result)

\* two such calls, parsed back from behind the prepended system prompt
C9_Witness ==
  /\ EncodedHistory /\ AllJSON(request.messages[1].tool_calls)
  /\ Canonical(markers, request.messages[1].tool_calls)
  /\ Len(request.messages[1].tool_calls) = 2
  /\ request.messages[1].tool_calls[1].function.name
       # request.messages[1].tool_calls[2].function.name
  /\ Len(parsed.result.toolCalls) = 2
  /\ parsed.index = 2

(***************************************************************************)
(* C10.  Idempotence: transformRequest on the result of transformRequest   *)
(* returns that result.                                                    *)
(***************************************************************************)
C10_Idempotent ==
  stage = "again" => again = rewritten.body

\* a request with tools, a merge and tool history, transformed twice
C10_Witness ==
  /\ stage = "again"
  /\ rewritten.hasTools
  /\ Has(request, "tools") /\ Len(request.tools) > 0
  /\ Len(request.messages) = 3
  /\ ~NoToolHistory(request)
  /\ Len(rewritten.body.messages) < Len(request.messages)
  /\ \E i \in 1..Len(request.messages) : RoleOf(request.messages[i]) = "system"
(***************************************************************************)
(* C11.  Non-streaming transcoding of a tool-enabled request: when parse   *)
(* of choices[0].message.content yields tool calls, message.tool_calls is  *)
(* that list, message.content the clean text (null when empty) and         *)
(* finish_reason "tool_calls"; when it yields none the response is         *)
(* returned as it came; the other choices, the other fields of the first   *)
(* choice and of its message, and the other top-level fields are as they   *)
(* came in both cases.                                                     *)
(***************************************************************************)
\* the non-streaming branch answered a request that declares tools
ToolEnabledJSON ==
  /\ pc = "done" /\ reply.branch = "C"
  /\ hasToolsOf(hreq.url, hreq.body)

\* the fields of record r other than those in keys
Rest(r, keys) == [f \in DOMAIN r \ keys |-> r[f]]

\* the answer is the response with the result p of parse written into it
Transcoded(answer, data, p) ==
  /\ Rest(answer, {"choices"}) = Rest(data, {"choices"})
  /\ Len(answer.choices) = Len(data.choices)
  /\ \A i \in 2..Len(data.choices) : answer.choices[i] = data.choices[i]
  /\ Rest(answer.choices[1], {"message", "finish_reason"})
       = Rest(data.choices[1], {"message", "finish_reason"})
  /\ Rest(answer.choices[1].message, {"content", "tool_calls"})
       = Rest(data.choices[1].message, {"content", "tool_calls"})
  /\ answer.choices[1].message.tool_calls = p.toolCalls
  /\ answer.choices[1].message.content
       = (IF p.cleanContent = << >> THEN Null ELSE p.cleanContent)
  /\ answer.choices[1].finish_reason = "tool_calls"

TranscodedOrSame(answer, data, p) ==
  IF Len(p.toolCalls) > 0 THEN Transcoded(answer, data, p) ELSE answer = data

C11_NonStreamingTranscoding ==
  ToolEnabledJSON
    => IF HasContent(upRes.data)
       THEN \E now \in Clock :
              TranscodedOrSame(reply.body, upRes.data,
                               parse(markers, upRes.data.choices[1].message.content, now))
       ELSE reply.body = upRes.data

\* a response of two choices whose first content is an envelope alone: the
\* content became null, the second choice kept its envelope
C11_Witness ==
  /\ ToolEnabledJSON
  /\ Len(upRes.data.choices) = 2
  /\ upRes.data.choices[1].message.content = Block(markers, << "f" >>, << "1" >>)
  /\ reply.body.choices[1].message.content = Null
  /\ Len(reply.body.choices[1].message.tool_calls) = 1
  /\ reply.body.choices[2] = upRes.data.choices[2]

(***************************************************************************)
(* C12.  History sanitation: for a request that declares no tools (so that *)
(* handleRequest passes hasTools = false), transformRequest adds no marker *)
(* to a message; the text of every assistant message with tool calls, then *)
(* "\n\n[Called tools: n1, n2, ...]" with the names in their order, is     *)
(* part of an assistant message of the result; and for every tool message  *)
(* "[Result from <name>]:\n<result>" is part of a user message of the      *)
(* result (a message of the result may hold more, the texts of the         *)
(* same-role messages next to it).                                         *)
(***************************************************************************)
Sanitized ==
  /\ stage = "rewritten"
  /\ DeclaresNoTools(request)
  /\ ~rewritten.hasTools

\* no text of a message of the request holds a marker
MarkerFree(m, messages) ==
  \A i \in 1..Len(messages) :
    /\ ~AnyMarker(m, OrEmpty(messages[i], "content"))
    /\ ~AnyMarker(m, OrEmpty(messages[i], "name"))
    /\ ~AnyMarker(m, OrEmpty(messages[i], "tool_call_id"))
    /\ HasToolCalls(messages[i])
         => \A k \in 1..Len(messages[i].tool_calls) :
              ~AnyMarker(m, messages[i].tool_calls[k].function.name)

CalledTools(msg) ==
  OrEmpty(msg, "content") \o << "\n", "\n", "[Called tools: " >> \o
  Join([k \in 1..Len(msg.tool_calls) |-> msg.tool_calls[k].function.name], << ", " >>) \o
  << "]" >>

ResultFrom(msg) ==
  << "[Result from " >> \o
  (IF OrEmpty(msg, "name") # << >> THEN msg.name
   ELSE IF OrEmpty(msg, "tool_call_id") # << >> THEN msg.tool_call_id
   ELSE << "unknown" >>) \o
  << "]:", "\n" >> \o ToText(msg, "content")

\* some message of the given role holds the text
Holds(messages, role, text) ==
  \E j \in 1..Len(messages) :
    /\ RoleOf(messages[j]) = role
    /\ Contains(OrEmpty(messages[j], "content"), text)

C12_SanitationEmitsNoMarkers ==
  Sanitized
    => /\ MarkerFree(markers, request.messages)
            => \A j \in 1..Len(rewritten.body.messages) :
                 ~AnyMarker(markers, OrEmpty(rewritten.body.messages[j], "content"))
       /\ \A i \in 1..Len(request.messages) :
            /\ (RoleOf(request.messages[i]) = "assistant" /\ HasToolCalls(request.messages[i]))
                 => Holds(rewritten.body.messages, "assistant", CalledTools(request.messages[i]))
            /\ RoleOf(request.messages[i]) = "tool"
                 => Holds(rewritten.body.messages, "user", ResultFrom(request.messages[i]))
       /\ \A j \in 1..Len(rewritten.body.messages) :
            RoleOf(rewritten.body.messages[j]) # "tool"
              /\ ~HasToolCalls(rewritten.body.messages[j])

\* a history with an assistant message of two calls, sanitized
C12_Witness ==
  /\ Sanitized
  /\ Len(request.messages) = 2
  /\ HasToolCalls(request.messages[2])
  /\ Len(request.messages[2].tool_calls) = 2
  /\ request.messages[2].tool_calls[1].function.name = << "g" >>
  /\ request.messages[2].tool_calls[2].function.name = << "f" >>
  /\ rewritten.body.messages[2].content
       = << "c", "\n", "\n", "[Called tools: ", "g", ", ", "f", "]" >>

(***************************************************************************)
(* C13.  The upstream validation gate, with ALLOW_LOCAL_NET off: a request *)
(* whose URL is missing or unparseable, has a scheme other than http and   *)
(* https, has the host localhost, 127.0.0.1, ::1 or 0.0.0.0, or resolves   *)
(* to an IPv4 address in 10/8, 172.16/12, 192.168/16 or 127/8, is answered *)
(* 403 security_error and nothing is given to fetch; a request with none   *)
(* of these whose DNS lookup fails is not rejected.                        *)
(***************************************************************************)
LoopbackHosts == { << "localhost" >>, << "127.0.0.1" >>, << "::1" >>, << "0.0.0.0" >> }

InPrivateRange(parts) ==
  \/ parts[1] = 10
  \/ parts[1] = 172 /\ parts[2] \in 16..31
  \/ parts[1] = 192 /\ parts[2] = 168
  \/ parts[1] = 127

\* the URL of the request is one the gate has to reject
MustReject ==
  \/ hreq.url = NoUrl
  \/ hreq.url.scheme \notin {"http", "https"}
  \/ ~hreq.url.wellFormed
  \/ hreq.url.host.text \in LoopbackHosts
  \/ resolved.ok /\ resolved.address.family = 4 /\ InPrivateRange(resolved.address.parts)

Rejected ==
  /\ pc = "done"
  /\ reply.status = 403 /\ reply.kind = "security_error"
  /\ sentBody = << >>

C13_ValidationGate ==
  (pc # "received" /\ ~config.ALLOW_LOCAL_NET)
    => /\ MustReject => Rejected
       /\ (~MustReject /\ resolved.called /\ ~resolved.ok) => ~Rejected

(***************************************************************************)
(* C14.  Transcoder engagement, for a request the upstream answered ok:    *)
(* the response goes through the streaming transformer exactly when the    *)
(* URL holds /chat/completions, the request declares tools and stream is   *)
(* true; any other request with stream true gets the upstream bytes as     *)
(* they are; a non-streaming response is left as it came unless the URL    *)
(* holds /chat/completions and tools are declared; and the body given to   *)
(* the upstream is the body of the request unless the URL holds            *)
(* /chat/completions.                                                      *)
(***************************************************************************)
ChatUrl == hreq.url.path = << "/v1", "/chat/completions" >>

ToolsDeclared == ~DeclaresNoTools(hreq.body)

StreamTrue == Has(hreq.body, "stream") /\ hreq.body.stream = TRUE

\* handleRequest has answered a response that was ok
Answered == pc = "done" /\ upRes.ok

C14_TranscoderEngagement ==
  /\ Answered
       => /\ reply.branch = "A" <=> (ChatUrl /\ ToolsDeclared /\ StreamTrue)
          /\ reply.branch = "A" => reply.kind = "sse"
          /\ (StreamTrue /\ ~(ChatUrl /\ ToolsDeclared))
               => (reply.branch = "B" /\ reply.body = BodyBytes(upRes))
          /\ (reply.branch = "C" /\ ~(ChatUrl /\ ToolsDeclared))
               => reply.body = upRes.data
  /\ (sentBody # << >> /\ ~ChatUrl) => sentBody[1] = hreq.body

\* a tool-enabled streaming request to /chat/completions: the body was
\* rewritten and the envelope of the stream came out as a tool_calls delta
C14_Witness ==
  /\ Answered
  /\ ChatUrl /\ ToolsDeclared /\ StreamTrue
  /\ reply.branch = "A"
  /\ HasKind(reply.body, "tool_calls")
  /\ sentBody[1] # hreq.body

(***************************************************************************)
(* C15.  Stream content conservation (I4): at the end of a stream the      *)
(* content deltas together with the names and arguments of the tool_calls  *)
(* deltas hold the code points the upstream sent, each as often as it was  *)
(* sent, without those of the delimiters of the envelopes; the delimiters  *)
(* of a rejected envelope may be kept or removed.  (The order of the code  *)
(* points is left open here, and the names are counted as conserved.)      *)
(***************************************************************************)
\* what is left of the envelope matched at i without its six delimiters
Inner(m, s, i) ==
  LET p  == SkipWS(s, i + Len(m.TC_START))
      n0 == p + Len(m.NAME_START)
      j  == Min(NameEnds(m, s, n0))
      q  == SkipWS(s, j + Len(m.NAME_END))
      a0 == q + Len(m.ARGS_START)
      k  == Min(ArgsEnds(m, s, a0))
      e  == SkipWS(s, k + Len(m.ARGS_END))
  IN  SubSeq(s, i + Len(m.TC_START), p - 1) \o SubSeq(s, n0, j - 1) \o
      SubSeq(s, j + Len(m.NAME_END), q - 1) \o SubSeq(s, a0, k - 1) \o
      SubSeq(s, k + Len(m.ARGS_END), e - 1)

\* s from position from on, every envelope replaced by what is left of it;
\* a rejected envelope is kept whole if keepRejected
RECURSIVE StripDelimiters(_, _, _, _)
StripDelimiters(m, s, from, keepRejected) ==
  LET i == Exec(m, s, from)
  IN  IF i = 0 THEN SubSeq(s, from, Len(s))
      ELSE SubSeq(s, from, i - 1) \o
           (IF keepRejected /\ ~JSONParseOk(Trim(MatchAt(m, s, i).args))
            THEN SubSeq(s, i, MatchAt(m, s, i).next - 1)
            ELSE Inner(m, s, i)) \o
           StripDelimiters(m, s, MatchAt(m, s, i).next, keepRejected)

\* the names and arguments of the tool_calls deltas among the frames
RECURSIVE CallTextOf(_)
CallTextOf(frames) ==
  IF Len(frames) = 0 THEN << >>
  ELSE (IF frames[1].kind = "tool_calls"
        THEN frames[1].call.function.name \o frames[1].call.function.arguments
        ELSE << >>)
       \o CallTextOf(Tail(frames))

Count(s, c) == Cardinality({ i \in 1..Len(s) : s[i] = c })

SameLetters(s, t) ==
  /\ Len(s) = Len(t)
  /\ \A i \in 1..Len(s) : Count(s, s[i]) = Count(t, s[i])

C15_ContentConserved ==
  Over
    => \E keepRejected \in BOOLEAN :
         SameLetters(TextOf(out) \o CallTextOf(out),
                     StripDelimiters(markers, sent, 1, keepRejected))

(***************************************************************************)
(* C16.  Invariant I1 of the transformer: in every state, if isBuffering   *)
(* is true then contentBuffer begins with TC_START.                        *)
(***************************************************************************)
C16_BufferBeginsWithStart ==
  isBuffering => At(contentBuffer, 1, markers.TC_START)

(***************************************************************************)
(* C17.  Bounded look-ahead: when a content delta has been processed, the  *)
(* transformer is not buffering and the content received so far holds no   *)
(* TC_START, then all the text of the earlier deltas has been emitted,     *)
(* but for an end of the content received that may still begin a TC_START. *)
(***************************************************************************)
\* the length of the longest end of s that is a beginning of TC_START and
\* not all of it
PartialLen(m, s) ==
  LET fits == { k \in 0..(Len(m.TC_START) - 1) :
                  /\ k <= Len(s)
                  /\ SubSeq(s, Len(s) - k + 1, Len(s)) = SubSeq(m.TC_START, 1, k) }
  IN  CHOOSE k \in fits : \A l \in fits : l <= k

C17_BoundedLookAhead ==
  [][ (/\ phase = "reading" /\ phase' = "reading"
       /\ ~up.done /\ up'.deltas = up.deltas + 1
       /\ ~isBuffering'
       /\ ~Contains(sent', markers.TC_START))
        => Len(TextOf(out')) >= Min({Len(sent), Len(sent') - PartialLen(markers, sent')})
    ]_vars

(***************************************************************************)
(* C18.  Several tool calls in one streamed response: at the end of a      *)
(* stream the tool_calls deltas are those of the well-formed envelopes     *)
(* sent, in their order, their index fields are 0, 1, ... in the order of  *)
(* emission, also when an envelope between them was rejected, and none     *)
(* comes after the finish chunk.                                           *)
(***************************************************************************)
\* the functions of the well-formed envelopes of s from position from on
RECURSIVE Accepted(_, _, _)
Accepted(m, s, from) ==
  LET i == Exec(m, s, from)
  IN  IF i = 0 THEN << >>
      ELSE (IF JSONParseOk(Trim(MatchAt(m, s, i).args))
            THEN << [ name      |-> Trim(MatchAt(m, s, i).name),
                      arguments |-> Trim(MatchAt(m, s, i).args) ] >>
            ELSE << >>)
           \o Accepted(m, s, MatchAt(m, s, i).next)

\* the frames of one kind, in order
RECURSIVE OfKind(_, _)
OfKind(frames, k) ==
  IF Len(frames) = 0 THEN << >>
  ELSE (IF frames[1].kind = k THEN << frames[1] >> ELSE << >>) \o OfKind(Tail(frames), k)

InOrder(deltas, functions) ==
  /\ Len(deltas) = Len(functions)
  /\ \A i \in 1..Len(deltas) :
       /\ deltas[i].index = i - 1
       /\ deltas[i].call.function = functions[i]

C18_ToolCallIndices ==
  Over
    => /\ InOrder(OfKind(out, "tool_calls"), Accepted(markers, sent, 1))
       /\ \A i, j \in 1..Len(out) :
            (out[i].kind = "tool_calls" /\ out[j].kind = "finish") => i < j

\* three envelopes were sent, the second was rejected, and the two others
\* came out with the indices 0 and 1
C18_Witness ==
  /\ Over
  /\ sent = Block(markers, << "f" >>, << "1" >>) \o Block(markers, << "g" >>, << "x" >>) \o
            Block(markers, << "h" >>, << "{", "}" >>)
  /\ Len(OfKind(out, "tool_calls")) = 2
  /\ OfKind(out, "tool_calls")[2].index = 1
  /\ OfKind(out, "tool_calls")[2].call.function.name = << "h" >>

(***************************************************************************)
(* C19.  Exactly-once termination: when the upstream body has ended, the   *)
(* frames pushed hold exactly one finish chunk and exactly one [DONE], the *)
(* finish chunk is the frame before [DONE], and [DONE] is the last frame.  *)
(***************************************************************************)
C19_TerminatedOnce ==
  phase = "ended"
    => /\ Len(OfKind(out, "finish")) = 1
       /\ Len(OfKind(out, "[DONE]")) = 1
       /\ Len(out) >= 2
       /\ out[Len(out)].kind = "[DONE]"
       /\ out[Len(out) - 1].kind = "finish"

(***************************************************************************)
(* C20.  Chunk-boundary independence: whatever the places the bytes of the *)
(* upstream body were cut at, the frames pushed are those pushed when the  *)
(* same bytes are written as one chunk, while the body goes on and after   *)
(* its end (the ids of the tool calls, which hold the time, left aside).   *)
(***************************************************************************)
\* the frames without the ids of the tool calls
NoIds(frames) ==
  [ i \in 1..Len(frames) |->
      IF frames[i].kind = "tool_calls"
      THEN [frames[i] EXCEPT !.call.id = << >>]
      ELSE frames[i] ]

\* the transformer after the bytes were written as one chunk
AsOneChunk(m, bytes) ==
  transform(m,
            [ lineBuffer |-> << >>, contentBuffer |-> << >>, isBuffering |-> FALSE,
              pendingText |-> << >>, streamEnded |-> FALSE, out |-> << >> ],
            bytes, 0)

C20_ChunkIndependent ==
  /\ phase = "reading" => NoIds(out) = NoIds(AsOneChunk(markers, sent).out)
  /\ phase = "ended"   => NoIds(out) = NoIds(StreamFrames(markers, sent, 0))

\* a body written in MaxChunks chunks or more that ended and gave a
\* tool_calls delta, its last line still in lineBuffer when it ended
C20_Witness ==
  /\ phase = "ended"
  /\ rest = << >>
  /\ up.deltas = MaxChunks
  /\ HasKind(out, "tool_calls")
  /\ Len(OfKind(out, "[DONE]")) = 2


(***************************************************************************)
(* C21.  Per-request isolation: however the frame steps of two streaming   *)
(* requests served at the same time are interleaved, each transformer's    *)
(* frames (ids aside: they hold Date.now()) and its lineBuffer,            *)
(* contentBuffer, isBuffering, pendingText and streamEnded are those of    *)
(* the same frames processed with no other request in the process, and     *)
(* the marker set is the one drawn at process start.                       *)
(***************************************************************************)
\* a transformer that is given the frames of the bytes, one per write, and
\* nothing else happens in between
RECURSIVE RunAlone(_, _, _)
RunAlone(m, st, bytes) ==
  IF bytes = << >> THEN st
  ELSE RunAlone(m, transform(m, st, SubSeq(bytes, 1, FrameLen(bytes)), 0),
                SubSeq(bytes, FrameLen(bytes) + 1, Len(bytes)))

Alone(m, bytes, ended) ==
  IF ended THEN flush(m, RunAlone(m, createStreamTransformer, bytes), 0)
  ELSE RunAlone(m, createStreamTransformer, bytes)

SameRun(st, ref) ==
  /\ NoIds(st.out) = NoIds(ref.out)
  /\ st.lineBuffer = ref.lineBuffer
  /\ st.contentBuffer = ref.contentBuffer
  /\ st.isBuffering = ref.isBuffering
  /\ st.pendingText = ref.pendingText
  /\ st.streamEnded = ref.streamEnded

C21_PerRequestIsolation ==
  /\ SameRun(St, Alone(markers, sent, phase = "ended"))
  /\ SameRun(peer, Alone(markers, peer.sent, peer.phase = "ended"))
  /\ markers = PairMarkers

\* both requests are in the middle of their bodies, both transformers are
\* buffering an envelope, each its own, and both have pushed text
C21_Witness ==
  /\ phase = "reading" /\ rest # << >>
  /\ peer.phase = "reading" /\ peer.rest # << >>
  /\ isBuffering /\ peer.isBuffering
  /\ contentBuffer # peer.contentBuffer
  /\ out # << >> /\ peer.out # << >>

====
